---- MODULE Spec2Model ----
(***************************************************************************)
(* Model of notebooks/scripts/helper_functions.py: the helper functions    *)
(* that provision a DynamoDB metadata table, Bedrock Data Automation (BDA)  *)
(* blueprints, blueprint versions and projects, and that poll a BDA         *)
(* invocation; that write and read the records of the metadata table; that  *)
(* split a file path; and that reshape the answer of a model and the output *)
(* of a BDA invocation into a metadata record.                              *)
(*                                                                          *)
(* One caller (the notebook) calls one function at a time.  Every service   *)
(* request a function makes is one step of the model; the services change   *)
(* state on their own between the steps (a table becomes ACTIVE, a project  *)
(* appears in the listing, a deleted resource disappears).                  *)
(*                                                                          *)
(* No function reads the state of a resource of another kind (table,        *)
(* blueprint, project, invocation), so a behaviour follows the calls about  *)
(* the resources of one kind.                                               *)
(*                                                                          *)
(* Python strings are sequences of tokens, so that "" is << >> and          *)
(* substring_after is computed on the text.  Python values a function can   *)
(* end with are records [tag, val]: None, a str, or a raised exception.     *)
(***************************************************************************)
EXTENDS Integers, Sequences, FiniteSets, TLC

(***************************************************************************)
(* Bounds of the model.                                                     *)
(***************************************************************************)
NumProjectNames == 2
NumBlueprintNames == 2

NamePool == <<"n1", "n2", "n3", "n4", "n5">>
ProjectNames == {NamePool[i] : i \in 1..NumProjectNames}
BlueprintNames == {NamePool[i] : i \in 1..NumBlueprintNames}
TableNames == {"t1"}
InvocationIds == {"i1"}

(***************************************************************************)
(* Program constants: the value the polling counter is compared with.       *)
(***************************************************************************)
ProjectPollLimit == 60
TablePollLimit == 60
DeleteProjectPollLimit == 60
DeleteTablePollLimit == 60
InvocationPollLimit == 60

VARIABLES
    resource,     \* the kind of resource the calls of this behaviour are about
    tables,       \* DynamoDB: table name -> "ABSENT" or its TableStatus
    blueprints,   \* BDA: the names of the blueprints that exist
    projects,     \* BDA: project name -> "ABSENT", "PENDING", "LIVE", "DELETING"
    fn,           \* the function being (or last) called
    pc,           \* "idle", or the service request the function makes next
    name,         \* the name argument of the call
    version,      \* the blueprint_version_arn argument of the call
    listing,      \* the part of the listing the for loop has not visited yet
    counter,      \* the local variable counter of the polling loops
    table_exists, \* the local variable table_exists
    invocation_id,\* the local variable invocation_id
    ret,          \* how the last call ended: its return value, or the exception
    creates,      \* history: create requests issued by this call
    polls,        \* history: polling attempts made by this call
    lastStatus,   \* history: the last status a response of this call carried
    lookupErr,    \* history: a lookup of this call failed with an error other
                  \*          than ResourceNotFoundException
    exhausted,    \* history: this call gave up because its poll budget ran out
    listed,       \* history: the first listing of this call held the name
    prev,         \* history: the call before this one, when it created the
                  \*          resource and the resource exists: [fn, name, ret]
    items,        \* DynamoDB: the items of the metadata table, by their key
    arg,          \* the arguments of a call of a function that takes no client,
                  \* or the resource client of the metadata table
    out,          \* how that call ended: its return value, or the exception
    written,      \* history: key -> what the last write under the key parsed to
    opened,       \* history: the files that call opened, in order
    callers       \* the calls of two concurrent callers of an ensure function

service == <<tables, blueprints, projects>>
frame == <<resource, fn, pc, name, version, listing, counter, table_exists, invocation_id, ret>>
history == <<creates, polls, lastStatus, lookupErr, exhausted, listed, prev>>
\* the variables the functions above do not touch
others == <<items, arg, out, written, opened, callers>>
vars == <<resource, tables, blueprints, projects, fn, pc, name, version, listing, counter,
          table_exists, invocation_id, ret, creates, polls, lastStatus,
          lookupErr, exhausted, listed, prev, items, arg, out, written, opened, callers>>

(***************************************************************************)
(* Python values.                                                           *)
(***************************************************************************)
NoneValue == [tag |-> "None", val |-> << >>]
Str(s) == [tag |-> "Str", val |-> s]
Raised(code) == [tag |-> "Raised", val |-> <<code>>]
Running == [tag |-> "Running", val |-> << >>]
EmptyString == << >>

(***************************************************************************)
(* The identifiers the services hand out.                                   *)
(***************************************************************************)
BlueprintArn(n) == <<"arn:aws:bedrock", ":", "blueprint", "/", n>>
ProjectArn(n) == <<"arn:aws:bedrock", ":", "data-automation-project", "/", n>>
InvocationArn(i) == <<"arn:aws:bedrock", ":", "data-automation-invocation", "/", i>>
VersionArgs == {EmptyString, <<"1">>}
NewVersion == <<"2">>

TableStatuses == {"CREATING", "ACTIVE", "DELETING"}
InvocationStatuses == {"Created", "InProgress", "Success", "ServiceError", "ClientError"}
CreateProjectStatuses == {"COMPLETED", "FAILED", "IN_PROGRESS"}

Range(s) == {s[i] : i \in 1..Len(s)}
\* every order in which a service can list the members of S
Listings(S) == {s \in [1..Cardinality(S) -> S] : Range(s) = S}

(***************************************************************************)
(* substring_after: source_string.rsplit(substring, 1)[1].                  *)
(***************************************************************************)
OccursAt(s, sub, i) ==
    /\ i >= 1
    /\ i + Len(sub) - 1 <= Len(s)
    /\ SubSeq(s, i, i + Len(sub) - 1) = sub

\* the parts of s.rsplit(sub, 1): s itself when sub does not occur
rsplit1(s, sub) ==
    LET at == {i \in 1..Len(s) : OccursAt(s, sub, i)}
    IN  IF at = {}
        THEN <<s>>
        ELSE LET last == CHOOSE i \in at : \A j \in at : j <= i
             IN  <<SubSeq(s, 1, last - 1), SubSeq(s, last + Len(sub), Len(s))>>

substring_after(source_string, substring) == rsplit1(source_string, substring)[2]

(***************************************************************************)
(* Service responses: [error, status].  error = "" is a normal response;     *)
(* any request can also fail with an error the state does not decide.       *)
(***************************************************************************)
NotFound == "ResourceNotFoundException"
OtherError == "InternalServerException"
Ok(status) == [error |-> "", status |-> status]
Err(code) == [error |-> code, status |-> ""]

describe_table(n) ==
    (IF tables[n] = "ABSENT" THEN {Err(NotFound)} ELSE {Ok(tables[n])})
        \cup {Err(OtherError)}

create_table(n) ==
    (IF tables[n] = "ABSENT"
     THEN {Ok("CREATING"), Ok("ACTIVE")}
     ELSE {Err("ResourceInUseException")})
        \cup {Err(OtherError)}

delete_table(n) ==
    (CASE tables[n] = "ABSENT" -> {Err(NotFound)}
       [] tables[n] = "DELETING" -> {Err("ResourceInUseException")}
       [] OTHER -> {Ok("DELETING")})
        \cup {Err(OtherError)}

(***************************************************************************)
(* Bookkeeping shared by the functions.                                     *)
(***************************************************************************)
EnsureFunctions == {"check_and_create_metadata_table", "check_and_create_bda_blueprint",
                    "check_and_create_bda_project"}

NoPrev == [fn |-> "none", name |-> "", ret |-> NoneValue]

\* the resource the call f(n) ensures exists in the service
Present(f, n) ==
    CASE f = "check_and_create_metadata_table" -> tables[n] # "ABSENT"
      [] f = "check_and_create_bda_blueprint" -> n \in blueprints
      [] f = "check_and_create_bda_project" -> projects[n] = "LIVE"
      [] OTHER -> FALSE

\* the kind of resource a function is about
ResourceOf(f) ==
    CASE f \in {"check_and_create_metadata_table", "delete_metadata_table"} -> "table"
      [] f \in {"check_and_create_bda_blueprint",
                "check_and_create_bda_blueprint_version"} -> "blueprint"
      [] f \in {"check_and_create_bda_project", "delete_bda_project"} -> "project"
      [] OTHER -> "invocation"

\* the caller calls f(n, v): the previous call is over
Enter(f, n, v) ==
    /\ pc = "idle"
    /\ UNCHANGED others
    /\ resource = ResourceOf(f)
    /\ UNCHANGED resource
    /\ fn' = f
    /\ name' = n
    /\ version' = v
    /\ prev' = IF fn \in EnsureFunctions /\ creates > 0 /\ Present(fn, name)
               THEN [fn |-> fn, name |-> name, ret |-> ret]
               ELSE NoPrev

InCall(f, p) ==
    fn = f /\ pc = p /\ UNCHANGED <<resource, fn, name, version, prev>> /\ UNCHANGED others

Return(v) == pc' = "idle" /\ ret' = v
Goto(p) == pc' = p /\ ret' = Running
\* an exception no handler of the function catches
Raise(code) == pc' = "idle" /\ ret' = Raised(code)

\* a loop that leaves the counter as it is
NextCounter_unchanged(c) == c

\* counter += 1
NextCounter(c) == c + 1

(***************************************************************************)
(* check_and_create_metadata_table                                          *)
(***************************************************************************)
\* a check that takes a table being created for a ready one
TableReady_or_creating(status) == status \in {"ACTIVE", "CREATING"}

\* table_status == 'ACTIVE'
TableReady(status) == status = "ACTIVE"

\* lines 399-417: the describe_table lookup and its handlers; the function
\* returns here when line 419 finds table_exists set
check_and_create_metadata_table(n) ==
    /\ Enter("check_and_create_metadata_table", n, EmptyString)
    /\ \E r \in describe_table(n) :
        /\ table_exists' = (r.error = "")
        /\ lastStatus' = r.status
        /\ lookupErr' = (r.error \notin {"", NotFound})
        /\ IF table_exists' THEN Return(NoneValue) ELSE Goto("create_table")
    /\ creates' = 0 /\ polls' = 0 /\ exhausted' = FALSE /\ listed' = FALSE
    /\ listing' = << >> /\ counter' = 0 /\ invocation_id' = EmptyString
    /\ UNCHANGED service

\* lines 419-441: create_table and the check of the status in its response
check_and_create_metadata_table_create ==
    /\ InCall("check_and_create_metadata_table", "create_table")
    /\ creates' = creates + 1
    /\ \E r \in create_table(name) :
        IF r.error # ""
        THEN /\ Raise(r.error)
             /\ UNCHANGED <<tables, lastStatus, counter>>
        ELSE /\ tables' = [tables EXCEPT ![name] = r.status]
             /\ lastStatus' = r.status
             /\ IF TableReady(r.status)
                THEN Return(NoneValue) /\ UNCHANGED counter
                ELSE Goto("poll_table") /\ counter' = 1
    /\ UNCHANGED <<blueprints, projects, listing, table_exists, invocation_id,
                   polls, lookupErr, exhausted, listed>>

\* lines 442-455: one turn of the polling loop
check_and_create_metadata_table_poll ==
    /\ InCall("check_and_create_metadata_table", "poll_table")
    /\ polls' = polls + 1
    /\ \E r \in describe_table(name) :
        IF r.error # ""
        THEN /\ Raise(r.error)
             /\ UNCHANGED <<lastStatus, counter, exhausted>>
        ELSE /\ lastStatus' = r.status
             /\ IF TableReady(r.status)
                THEN Return(NoneValue) /\ UNCHANGED <<counter, exhausted>>
                ELSE /\ counter' = NextCounter(counter)
                     /\ exhausted' = (counter' = TablePollLimit)
                     /\ IF exhausted' THEN Return(NoneValue) ELSE Goto("poll_table")
    /\ UNCHANGED <<service, listing, table_exists, invocation_id, creates,
                   lookupErr, listed>>

(***************************************************************************)
(* delete_metadata_table                                                    *)
(***************************************************************************)
\* lines 541-544: delete_table
delete_metadata_table(n) ==
    /\ Enter("delete_metadata_table", n, EmptyString)
    /\ \E r \in delete_table(n) :
        IF r.error # ""
        THEN /\ Raise(r.error)
             /\ UNCHANGED tables
             /\ counter' = 0
        ELSE /\ tables' = [tables EXCEPT ![n] = r.status]
             /\ Goto("poll_table_deleted")
             /\ counter' = 1
    /\ creates' = 0 /\ polls' = 0 /\ exhausted' = FALSE /\ listed' = FALSE
    /\ lastStatus' = "" /\ lookupErr' = FALSE
    /\ listing' = << >> /\ table_exists' = FALSE /\ invocation_id' = EmptyString
    /\ UNCHANGED <<blueprints, projects>>

\* lines 545-562: one turn of the polling loop
delete_metadata_table_poll ==
    /\ InCall("delete_metadata_table", "poll_table_deleted")
    /\ polls' = polls + 1
    /\ \E r \in describe_table(name) :
        IF r.error # ""
        THEN /\ lookupErr' = (r.error # NotFound)
             /\ lastStatus' = r.error
             /\ Return(NoneValue)
             /\ UNCHANGED <<counter, exhausted>>
        ELSE /\ lastStatus' = r.status
             /\ counter' = NextCounter(counter)
             /\ exhausted' = (counter' = DeleteTablePollLimit)
             /\ IF exhausted' THEN Return(NoneValue) ELSE Goto("poll_table_deleted")
             /\ UNCHANGED lookupErr
    /\ UNCHANGED <<service, listing, table_exists, invocation_id, creates, listed>>

(***************************************************************************)
(* DynamoDB on its own: a table being created becomes ACTIVE, a table being *)
(* deleted disappears.                                                      *)
(***************************************************************************)
TableBecomesActive(n) ==
    /\ tables[n] = "CREATING"
    /\ tables' = [tables EXCEPT ![n] = "ACTIVE"]
    /\ UNCHANGED <<blueprints, projects, frame, history, others>>

TableDisappears(n) ==
    /\ tables[n] = "DELETING"
    /\ tables' = [tables EXCEPT ![n] = "ABSENT"]
    /\ UNCHANGED <<blueprints, projects, frame, history, others>>

(***************************************************************************)
(* BDA responses.                                                           *)
(***************************************************************************)
list_blueprints == Listings(blueprints)

create_blueprint(n) ==
    (IF n \in blueprints THEN {Err("ConflictException")} ELSE {Ok("LIVE")})
        \cup {Err(OtherError)}

\* the status of a get_blueprint response is its blueprintVersion, "" when
\* the response carries none
get_blueprint(n, v) ==
    (CASE n \notin blueprints -> {Err(NotFound)}
       [] n \in blueprints /\ v = EmptyString -> {Ok("")}
       [] OTHER -> {Ok(v[1]), Ok("")})
        \cup {Err(OtherError)}

create_blueprint_version(n) ==
    (IF n \in blueprints THEN {Ok(NewVersion[1])} ELSE {Err(NotFound)})
        \cup {Err(OtherError)}

ListedProjects == {n \in ProjectNames : projects[n] \in {"LIVE", "DELETING"}}
list_data_automation_projects == Listings(ListedProjects)

create_data_automation_project(n) ==
    (IF projects[n] = "ABSENT"
     THEN {Ok(s) : s \in CreateProjectStatuses}
     ELSE {Err("ConflictException")})
        \cup {Err(OtherError)}

get_data_automation_project(n) ==
    (IF projects[n] \in {"LIVE", "DELETING"} THEN {Ok(projects[n])} ELSE {Err(NotFound)})
        \cup {Err(OtherError)}

delete_data_automation_project(n) ==
    (IF projects[n] = "LIVE" THEN {Ok("DELETING")} ELSE {Err(NotFound)})
        \cup {Err(OtherError)}

\* what the service holds after a create request answered with status s
ProjectAfterCreate(s) ==
    CASE s = "COMPLETED" -> "LIVE"
      [] s = "IN_PROGRESS" -> "PENDING"
      [] OTHER -> "ABSENT"

(***************************************************************************)
(* check_and_create_bda_blueprint                                           *)
(***************************************************************************)
\* lines 150-159: list_blueprints and the search of the listing
check_and_create_bda_blueprint(n) ==
    /\ Enter("check_and_create_bda_blueprint", n, EmptyString)
    /\ \/ \E l \in list_blueprints :
            /\ listed' = (n \in Range(l))
            /\ IF \E i \in 1..Len(l) : l[i] = n
               THEN Return(Str(BlueprintArn(l[CHOOSE i \in 1..Len(l) : l[i] = n])))
               ELSE Goto("create_blueprint")
       \/ Raise(OtherError) /\ listed' = FALSE
    /\ creates' = 0 /\ polls' = 0 /\ exhausted' = FALSE
    /\ lastStatus' = "" /\ lookupErr' = FALSE
    /\ listing' = << >> /\ counter' = 0 /\ table_exists' = FALSE
    /\ invocation_id' = EmptyString
    /\ UNCHANGED service

\* lines 161-186: create_blueprint
check_and_create_bda_blueprint_create ==
    /\ InCall("check_and_create_bda_blueprint", "create_blueprint")
    /\ creates' = creates + 1
    /\ \E r \in create_blueprint(name) :
        IF r.error # ""
        THEN Raise(r.error) /\ UNCHANGED blueprints
        ELSE /\ blueprints' = blueprints \cup {name}
             /\ Return(Str(BlueprintArn(name)))
    /\ UNCHANGED <<tables, projects, listing, counter, table_exists, invocation_id,
                   polls, lastStatus, lookupErr, exhausted, listed>>

(***************************************************************************)
(* check_and_create_bda_blueprint_version                                   *)
(***************************************************************************)
\* a lookup that returns '' when no version is specified
after_get_blueprint_empty_returns(blueprint_version_arn, r) ==
    IF r.error # "" \/ Len(blueprint_version_arn) = 0
    THEN [pc |-> "idle", ret |-> Str(EmptyString)]
    ELSE IF r.status # ""
         THEN [pc |-> "idle", ret |-> Str(<<r.status>>)]
         ELSE [pc |-> "create_blueprint_version", ret |-> Running]

\* a handler that lets an error other than ResourceNotFoundException through
after_get_blueprint_other_error_raises(blueprint_version_arn, r) ==
    IF r.error = NotFound
    THEN [pc |-> "idle", ret |-> Str(EmptyString)]
    ELSE IF r.error # ""
         THEN [pc |-> "idle", ret |-> Raised(r.error)]
         ELSE IF Len(blueprint_version_arn) # 0 /\ r.status # ""
              THEN [pc |-> "idle", ret |-> Str(<<r.status>>)]
              ELSE [pc |-> "create_blueprint_version", ret |-> Running]

\* a lookup that does not look for the blueprintVersion of the response
after_get_blueprint_ignores_version(blueprint_version_arn, r) ==
    IF r.error # ""
    THEN [pc |-> "idle", ret |-> Str(EmptyString)]
    ELSE [pc |-> "create_blueprint_version", ret |-> Running]

\* lines 204-231: where the function goes after the get_blueprint lookup:
\* [pc, ret]
after_get_blueprint(blueprint_version_arn, r) ==
    IF r.error # ""
    THEN [pc |-> "idle", ret |-> Str(EmptyString)]
    ELSE IF Len(blueprint_version_arn) = 0
         THEN [pc |-> "create_blueprint_version", ret |-> Running]
         ELSE IF r.status # ""
              THEN [pc |-> "idle", ret |-> Str(<<r.status>>)]
              ELSE [pc |-> "create_blueprint_version", ret |-> Running]

check_and_create_bda_blueprint_version(n, v) ==
    /\ Enter("check_and_create_bda_blueprint_version", n, v)
    /\ \E r \in get_blueprint(n, v) :
        /\ lookupErr' = (r.error \notin {"", NotFound})
        \* the error, or the blueprintVersion the response carries, or "OK"
        /\ lastStatus' = IF r.error # "" THEN r.error
                         ELSE IF r.status # "" THEN r.status ELSE "OK"
        /\ pc' = after_get_blueprint(v, r).pc
        /\ ret' = after_get_blueprint(v, r).ret
    /\ creates' = 0 /\ polls' = 0 /\ exhausted' = FALSE /\ listed' = FALSE
    /\ listing' = << >> /\ counter' = 0 /\ table_exists' = FALSE
    /\ invocation_id' = EmptyString
    /\ UNCHANGED service

\* lines 233-239: create_blueprint_version
check_and_create_bda_blueprint_version_create ==
    /\ InCall("check_and_create_bda_blueprint_version", "create_blueprint_version")
    /\ creates' = creates + 1
    /\ \E r \in create_blueprint_version(name) :
        IF r.error # ""
        THEN Raise(r.error)
        ELSE Return(Str(<<r.status>>))
    /\ UNCHANGED <<service, listing, counter, table_exists, invocation_id,
                   polls, lastStatus, lookupErr, exhausted, listed>>

(***************************************************************************)
(* check_and_create_bda_project                                             *)
(***************************************************************************)
\* lines 262-272 and the end of the function: the for loop over the listing,
\* from the entries l it has not visited yet, up to its next request:
\* [pc, ret, listing].  The statements from line 270 on are in the body of the
\* loop: they run for an entry whose name differs.
project_loop(l, project_name) ==
    IF l = << >>
    THEN [pc |-> "idle", ret |-> NoneValue, listing |-> << >>]
    ELSE IF Head(l) = project_name
         THEN [pc |-> "idle", ret |-> Str(ProjectArn(Head(l))), listing |-> << >>]
         ELSE [pc |-> "create_project", ret |-> Running, listing |-> Tail(l)]

\* line 261: list_data_automation_projects, then the loop
check_and_create_bda_project(n) ==
    /\ Enter("check_and_create_bda_project", n, EmptyString)
    /\ \/ \E l \in list_data_automation_projects :
            /\ listed' = (n \in Range(l))
            /\ pc' = project_loop(l, n).pc
            /\ ret' = project_loop(l, n).ret
            /\ listing' = project_loop(l, n).listing
       \/ Raise(OtherError) /\ listed' = FALSE /\ listing' = << >>
    /\ creates' = 0 /\ polls' = 0 /\ exhausted' = FALSE
    /\ lastStatus' = "" /\ lookupErr' = FALSE
    /\ counter' = 0 /\ table_exists' = FALSE /\ invocation_id' = EmptyString
    /\ UNCHANGED service

\* lines 273-370: create_data_automation_project and the check of the status
\* in its response; after COMPLETED and FAILED the for loop goes on
check_and_create_bda_project_create ==
    /\ InCall("check_and_create_bda_project", "create_project")
    /\ creates' = creates + 1
    /\ \E r \in create_data_automation_project(name) :
        IF r.error # ""
        THEN /\ Raise(r.error)
             /\ listing' = << >>
             /\ UNCHANGED <<projects, lastStatus, counter>>
        ELSE /\ projects' = [projects EXCEPT ![name] = ProjectAfterCreate(r.status)]
             /\ lastStatus' = r.status
             /\ IF r.status \in {"COMPLETED", "FAILED"}
                THEN /\ pc' = project_loop(listing, name).pc
                     /\ ret' = project_loop(listing, name).ret
                     /\ listing' = project_loop(listing, name).listing
                     /\ UNCHANGED counter
                ELSE /\ Goto("poll_project")
                     /\ listing' = << >>
                     /\ counter' = 1
    /\ UNCHANGED <<tables, blueprints, table_exists, invocation_id, polls,
                   lookupErr, exhausted, listed>>

\* lines 371-383: one turn of the polling loop
check_and_create_bda_project_poll ==
    /\ InCall("check_and_create_bda_project", "poll_project")
    /\ polls' = polls + 1
    /\ \/ \E l \in list_data_automation_projects :
            IF \E i \in 1..Len(l) : l[i] = name
            THEN /\ Return(Str(ProjectArn(l[CHOOSE i \in 1..Len(l) : l[i] = name])))
                 /\ UNCHANGED <<counter, exhausted>>
            ELSE /\ counter' = NextCounter(counter)
                 /\ exhausted' = (counter' = ProjectPollLimit)
                 /\ IF exhausted' THEN Return(Str(EmptyString)) ELSE Goto("poll_project")
       \/ Raise(OtherError) /\ UNCHANGED <<counter, exhausted>>
    /\ UNCHANGED <<service, listing, table_exists, invocation_id, creates,
                   lastStatus, lookupErr, listed>>

(***************************************************************************)
(* delete_bda_project                                                       *)
(***************************************************************************)
\* lines 500-503: delete_data_automation_project
delete_bda_project(n) ==
    /\ Enter("delete_bda_project", n, EmptyString)
    /\ \E r \in delete_data_automation_project(n) :
        IF r.error # ""
        THEN /\ Raise(r.error)
             /\ UNCHANGED projects
             /\ counter' = 0
        ELSE /\ projects' = [projects EXCEPT ![n] = r.status]
             /\ Goto("poll_project_deleted")
             /\ counter' = 1
    /\ creates' = 0 /\ polls' = 0 /\ exhausted' = FALSE /\ listed' = FALSE
    /\ lastStatus' = "" /\ lookupErr' = FALSE
    /\ listing' = << >> /\ table_exists' = FALSE /\ invocation_id' = EmptyString
    /\ UNCHANGED <<tables, blueprints>>

\* lines 504-523: one turn of the polling loop
delete_bda_project_poll ==
    /\ InCall("delete_bda_project", "poll_project_deleted")
    /\ polls' = polls + 1
    /\ \E r \in get_data_automation_project(name) :
        IF r.error # ""
        THEN /\ lookupErr' = (r.error # NotFound)
             /\ lastStatus' = r.error
             /\ Return(NoneValue)
             /\ UNCHANGED <<counter, exhausted>>
        ELSE /\ lastStatus' = r.status
             /\ counter' = NextCounter(counter)
             /\ exhausted' = (counter' = DeleteProjectPollLimit)
             /\ IF exhausted' THEN Return(NoneValue) ELSE Goto("poll_project_deleted")
             /\ UNCHANGED lookupErr
    /\ UNCHANGED <<service, listing, table_exists, invocation_id, creates, listed>>

(***************************************************************************)
(* BDA on its own: a project being created appears in the listing, a        *)
(* project being deleted disappears.                                        *)
(***************************************************************************)
ProjectAppears(n) ==
    /\ projects[n] = "PENDING"
    /\ projects' = [projects EXCEPT ![n] = "LIVE"]
    /\ UNCHANGED <<tables, blueprints, frame, history, others>>

ProjectDisappears(n) ==
    /\ projects[n] = "DELETING"
    /\ projects' = [projects EXCEPT ![n] = "ABSENT"]
    /\ UNCHANGED <<tables, blueprints, frame, history, others>>

(***************************************************************************)
(* process_bda_invocation                                                   *)
(***************************************************************************)
\* a check that does not take ClientError for a failure
after_status_without_ClientError(status, id) ==
    IF status \in {"Success"}
    THEN [done |-> TRUE, ret |-> Str(id)]
    ELSE IF status \in {"ServiceError"}
         THEN [done |-> TRUE, ret |-> Str(EmptyString)]
         ELSE [done |-> FALSE, ret |-> Running]

\* lines 828-833: what a status ends the polling with: [done, ret]
after_status(status, id) ==
    IF status \in {"Success"}
    THEN [done |-> TRUE, ret |-> Str(id)]
    ELSE IF status \in {"ServiceError", "ClientError"}
         THEN [done |-> TRUE, ret |-> Str(EmptyString)]
         ELSE [done |-> FALSE, ret |-> Running]

\* lines 802-819: invoke_data_automation_async; the service names the
\* invocation i
process_bda_invocation(i) ==
    /\ Enter("process_bda_invocation", i, EmptyString)
    /\ \/ /\ invocation_id' = substring_after(InvocationArn(i), <<"/">>)
          /\ counter' = 1
          /\ Goto("poll_invocation")
       \/ /\ Raise(OtherError)
          /\ invocation_id' = EmptyString
          /\ counter' = 0
    /\ creates' = 0 /\ polls' = 0 /\ exhausted' = FALSE /\ listed' = FALSE
    /\ lastStatus' = "" /\ lookupErr' = FALSE
    /\ listing' = << >> /\ table_exists' = FALSE
    /\ UNCHANGED service

\* lines 820-837: one turn of the polling loop
process_bda_invocation_poll ==
    /\ InCall("process_bda_invocation", "poll_invocation")
    /\ polls' = polls + 1
    /\ \/ \E status \in InvocationStatuses :
            /\ lastStatus' = status
            /\ IF after_status(status, invocation_id).done
               THEN /\ Return(after_status(status, invocation_id).ret)
                    /\ UNCHANGED <<counter, exhausted>>
               ELSE /\ counter' = NextCounter(counter)
                    /\ exhausted' = (counter' = InvocationPollLimit)
                    /\ IF exhausted'
                       THEN Return(Str(EmptyString))
                       ELSE Goto("poll_invocation")
       \/ Raise(OtherError) /\ UNCHANGED <<lastStatus, counter, exhausted>>
    /\ UNCHANGED <<service, listing, table_exists, invocation_id, creates,
                   lookupErr, listed>>

(***************************************************************************)
(* The specification.                                                       *)
(***************************************************************************)
Init ==
    /\ resource \in {"table", "blueprint", "project", "invocation"}
    /\ tables \in [TableNames -> {"ABSENT"} \cup TableStatuses]
    /\ blueprints \in SUBSET BlueprintNames
    /\ projects \in [ProjectNames -> {"ABSENT", "LIVE"}]
    /\ resource # "table" => tables = [n \in TableNames |-> "ABSENT"]
    /\ resource # "blueprint" => blueprints = {}
    /\ resource # "project" => projects = [n \in ProjectNames |-> "ABSENT"]
    /\ fn = "none"
    /\ pc = "idle"
    /\ name = ""
    /\ version = EmptyString
    /\ listing = << >>
    /\ counter = 0
    /\ table_exists = FALSE
    /\ invocation_id = EmptyString
    /\ ret = NoneValue
    /\ creates = 0
    /\ polls = 0
    /\ lastStatus = ""
    /\ lookupErr = FALSE
    /\ exhausted = FALSE
    /\ listed = FALSE
    /\ prev = NoPrev
    /\ items = << >>
    /\ arg = << >>
    /\ out = NoneValue
    /\ written = << >>
    /\ opened = << >>
    /\ callers = << >>

\* the steps of the functions
Step ==
    \/ \E n \in TableNames : check_and_create_metadata_table(n)
    \/ check_and_create_metadata_table_create
    \/ check_and_create_metadata_table_poll
    \/ \E n \in TableNames : delete_metadata_table(n)
    \/ delete_metadata_table_poll
    \/ \E n \in BlueprintNames : check_and_create_bda_blueprint(n)
    \/ check_and_create_bda_blueprint_create
    \/ \E n \in BlueprintNames, v \in VersionArgs : check_and_create_bda_blueprint_version(n, v)
    \/ check_and_create_bda_blueprint_version_create
    \/ \E n \in ProjectNames : check_and_create_bda_project(n)
    \/ check_and_create_bda_project_create
    \/ check_and_create_bda_project_poll
    \/ \E n \in ProjectNames : delete_bda_project(n)
    \/ delete_bda_project_poll
    \/ \E i \in InvocationIds : process_bda_invocation(i)
    \/ process_bda_invocation_poll

\* the steps of the services
Service ==
    \/ \E n \in TableNames : TableBecomesActive(n)
    \/ \E n \in TableNames : TableDisappears(n)
    \/ \E n \in ProjectNames : ProjectAppears(n)
    \/ \E n \in ProjectNames : ProjectDisappears(n)

Next == Step \/ Service

Spec == Init /\ [][Next]_vars

\* a function that makes a blocking request gets its response and goes on
FairSpec == Spec /\ WF_vars(Step)

(***************************************************************************)
(* Claims.                                                                  *)
(***************************************************************************)
Returned == pc = "idle" /\ ret.tag # "Raised"

\* this call follows a call of the same function with the same name that
\* created the resource, and the resource existed when this call began
SecondCall == fn \in EnsureFunctions /\ prev.fn = fn /\ prev.name = name

\* C1: when a first call of check_and_create_metadata_table,
\* check_and_create_bda_blueprint or check_and_create_bda_project created the
\* resource, a second call with the same name issues no create request,
\* whatever the service lists alongside the resource and in whatever order.
C1_SecondCallIssuesNoCreate ==
    (SecondCall /\ ~lookupErr) => creates = 0

\* C2: a call of check_and_create_bda_project that returns has issued exactly
\* one create_data_automation_project request when the listing did not hold
\* the name, and none when it did.
C2_OneCreateWhenAbsent ==
    (fn = "check_and_create_bda_project" /\ Returned)
        => creates = (IF listed THEN 0 ELSE 1)

\* C3: when check_and_create_bda_project creates the project, after a create
\* response COMPLETED it returns the ARN of the project, and after a create
\* response FAILED it returns nothing and issues no further request.
C3_CompletedReturnsArn ==
    (fn = "check_and_create_bda_project" /\ creates > 0)
        => /\ lastStatus = "COMPLETED"
                => pc = "idle" /\ ret = Str(ProjectArn(name))
           /\ lastStatus = "FAILED"
                => pc = "idle" /\ ret = NoneValue /\ creates = 1

\* the get_blueprint lookup of a call with an empty version ARN succeeded
EmptyVersionLookupOk ==
    /\ fn = "check_and_create_bda_blueprint_version"
    /\ version = EmptyString
    /\ lastStatus = "OK"

\* C4 as stated: check_and_create_bda_blueprint_version called with an empty
\* version ARN, for a blueprint that exists at LIVE stage, returns the empty
\* string and issues no create_blueprint_version request.
C4_EmptyVersionCreatesNothing ==
    EmptyVersionLookupOk
        => creates = 0 /\ (pc = "idle" => ret = Str(EmptyString))

\* C4 as amended: check_and_create_bda_blueprint_version called with an empty
\* version ARN, for a blueprint that exists at LIVE stage, issues exactly one
\* create_blueprint_version request and, when the request succeeds, returns the
\* version the request created.
C4_EmptyVersionCreatesVersion ==
    EmptyVersionLookupOk
        => IF pc = "idle"
           THEN creates = 1 /\ (ret.tag # "Raised" => ret = Str(NewVersion))
           ELSE creates = 0 /\ pc = "create_blueprint_version"

\* an empty version ARN, the blueprint exists, one version was created and returned
C4_Witness ==
    /\ EmptyVersionLookupOk
    /\ pc = "idle"
    /\ creates = 1
    /\ ret = Str(NewVersion)

\* C5: a polling loop of process_bda_invocation, check_and_create_bda_project
\* or check_and_create_metadata_table that gives up has made exactly 60
\* polling attempts.
C5_SixtyAttempts ==
    (exhausted /\ fn \in {"process_bda_invocation", "check_and_create_bda_project",
                          "check_and_create_metadata_table"})
        => polls = 60

PollingPcs == {"poll_table", "poll_table_deleted", "poll_project",
               "poll_project_deleted", "poll_invocation"}

\* C6: every polling loop (table creation, project creation, invocation
\* status, project deletion, table deletion) ends: a function that is in its
\* loop leaves it, after fewer attempts than the limit of 60; and when
\* process_bda_invocation or check_and_create_bda_project gives up, the
\* function returns the empty string.
C6_PollingTerminates ==
    /\ (pc \in PollingPcs) ~> (pc = "idle")
    /\ [](polls < 60)
    /\ []((exhausted /\ fn \in {"process_bda_invocation", "check_and_create_bda_project"})
            => pc = "idle" /\ ret = Str(EmptyString))

\* check_and_create_bda_project gave up after its last attempt and returned ''
C6_Witness ==
    /\ exhausted
    /\ fn = "check_and_create_bda_project"
    /\ pc = "idle"
    /\ polls = 59
    /\ ret = Str(EmptyString)

\* C7: in check_and_create_metadata_table, when the describe_table lookup
\* fails with an error other than ResourceNotFoundException, no create_table
\* request is issued.
C7_OtherErrorCreatesNothing ==
    (fn = "check_and_create_metadata_table" /\ lookupErr) => creates = 0

\* C8: process_bda_invocation returns the invocation id exactly when a status
\* check returned Success; it returns the empty string after a status
\* ServiceError or ClientError and when the poll budget ran out; and no status
\* check follows a status Success, ServiceError or ClientError.
C8_InvocationResult ==
    fn = "process_bda_invocation"
        => /\ lastStatus \in {"Success", "ServiceError", "ClientError"} => pc = "idle"
           /\ Returned
                => /\ ret = Str(<<name>>) <=> lastStatus = "Success"
                   /\ (lastStatus \in {"ServiceError", "ClientError"} \/ exhausted)
                        => ret = Str(EmptyString)
                   /\ ret \in {Str(<<name>>), Str(EmptyString)}

\* a status check after the first one returned Success and the id was returned
C8_Witness ==
    /\ fn = "process_bda_invocation"
    /\ pc = "idle"
    /\ polls > 1
    /\ lastStatus = "Success"
    /\ ret = Str(<<name>>)

\* C9: when a first call of check_and_create_bda_blueprint or
\* check_and_create_bda_project created the resource, a second call with the
\* same name returns the identifier the first call returned.
C9_SecondCallSameArn ==
    (SecondCall /\ Returned
        /\ fn \in {"check_and_create_bda_blueprint", "check_and_create_bda_project"})
        => ret = prev.ret

TableCallReturnedInBudget ==
    /\ fn = "check_and_create_metadata_table"
    /\ Returned
    /\ ~exhausted

\* C10 as stated: whenever check_and_create_metadata_table returns without
\* having exhausted its poll budget, the last table status it observed is
\* ACTIVE, when the table existed before the call and when the call created it.
C10_ReturnsWhenActive ==
    TableCallReturnedInBudget => lastStatus = "ACTIVE"

\* C10 as amended: whenever check_and_create_metadata_table has created the
\* table and returns without having exhausted its poll budget, the last table
\* status it observed is ACTIVE; when the table existed before the call, the
\* function returns after the one lookup, without polling.
C10_ReturnsWhenActiveIfCreated ==
    TableCallReturnedInBudget
        => IF creates > 0 THEN lastStatus = "ACTIVE" ELSE polls = 0

\* the call created the table and polled until it saw ACTIVE
C10_Witness ==
    /\ TableCallReturnedInBudget
    /\ creates = 1
    /\ polls > 1
    /\ lastStatus = "ACTIVE"

\* C14: in check_and_create_bda_blueprint_version, when the get_blueprint
\* lookup fails with ResourceNotFoundException or with another service error,
\* the function returns the empty string, the error does not reach the caller
\* and no create_blueprint_version request is issued.
C14_LookupErrorReturnsEmpty ==
    (fn = "check_and_create_bda_blueprint_version" /\ lastStatus \in {NotFound, OtherError})
        => pc = "idle" /\ ret = Str(EmptyString) /\ creates = 0

\* the lookup failed with an error other than ResourceNotFoundException and
\* the function returned ''
C14_Witness ==
    /\ fn = "check_and_create_bda_blueprint_version"
    /\ lastStatus = OtherError
    /\ lookupErr
    /\ pc = "idle"
    /\ ret = Str(EmptyString)

\* the get_blueprint lookup of a call with a version ARN succeeded
VersionLookupOk ==
    /\ fn = "check_and_create_bda_blueprint_version"
    /\ version # EmptyString
    /\ lastStatus \notin {"", NotFound, OtherError}

\* C20: check_and_create_bda_blueprint_version called with a non-empty version
\* ARN returns the version the get_blueprint response reports, without a
\* create request, when the response carries a blueprintVersion; otherwise it
\* issues exactly one create_blueprint_version request and returns the version
\* the request created.
C20_VersionReturnedOrCreated ==
    VersionLookupOk
        => IF lastStatus # "OK"
           THEN pc = "idle" /\ creates = 0 /\ ret = Str(<<lastStatus>>)
           ELSE IF pc = "idle"
                THEN creates = 1 /\ (ret.tag # "Raised" => ret = Str(NewVersion))
                ELSE creates = 0 /\ pc = "create_blueprint_version"

\* the response carried no blueprintVersion, one version was created and returned
C20_Witness ==
    /\ VersionLookupOk
    /\ lastStatus = "OK"
    /\ pc = "idle"
    /\ creates = 1
    /\ ret = Str(NewVersion)

(***************************************************************************)
(* The functions that take no client.  A behaviour draws the arguments of   *)
(* one call, and the call computes its result; the services and the calls   *)
(* above stay as they are.                                                  *)
(***************************************************************************)
provisioning == <<resource, tables, blueprints, projects, fn, pc, name, version,
                  listing, counter, table_exists, invocation_id, ret, creates,
                  polls, lastStatus, lookupErr, exhausted, listed, prev>>

NoProvisioning ==
    /\ resource = "none"
    /\ tables = [n \in TableNames |-> "ABSENT"]
    /\ blueprints = {}
    /\ projects = [n \in ProjectNames |-> "ABSENT"]
    /\ fn = "none"
    /\ pc = "idle"
    /\ name = ""
    /\ version = EmptyString
    /\ listing = << >>
    /\ counter = 0
    /\ table_exists = FALSE
    /\ invocation_id = EmptyString
    /\ ret = NoneValue
    /\ creates = 0
    /\ polls = 0
    /\ lastStatus = ""
    /\ lookupErr = FALSE
    /\ exhausted = FALSE
    /\ listed = FALSE
    /\ prev = NoPrev

True == [tag |-> "Bool", val |-> <<"True">>]
False == [tag |-> "Bool", val |-> <<"False">>]
Bool(b) == IF b THEN True ELSE False
Tuple(a, b) == [tag |-> "Tuple", val |-> <<a, b>>]

\* every sequence over S of length at most n
SeqsUpTo(S, n) == UNION {[1..k -> S] : k \in 0..n}

(***************************************************************************)
(* get_file_name_and_extension, is_supported_file_type                      *)
(*                                                                          *)
(* A path is a sequence of tokens: "/", "." and words, which hold neither;  *)
(* no word is made of other words, so two paths are the same text exactly   *)
(* when they are the same sequence.                                         *)
(***************************************************************************)
MaxPathLen == 3

supported_file_types == {"pdf", "csv", "doc", "docx", "xls", "xlsx", "html", "txt", "md",
                         "png", "jpeg", "gif", "webp"}
PathTokens == {"/", ".", "c", "PDF"} \cup supported_file_types
Paths == SeqsUpTo(PathTokens, MaxPathLen)
    \cup {<<"a", "/", "b", "/", "c", ".", "txt">>, <<"a", "/", "b", "/", "noext">>}

\* s.split(sep): the parts of s between the occurrences of the token sep
RECURSIVE split(_, _)
split(s, sep) ==
    IF \A i \in 1..Len(s) : s[i] # sep
    THEN <<s>>
    ELSE LET first == CHOOSE i \in 1..Len(s) : s[i] = sep /\ \A j \in 1..(i - 1) : s[j] # sep
         IN  <<SubSeq(s, 1, first - 1)>> \o split(SubSeq(s, first + 1, Len(s)), sep)

\* a split at the first '.' in place of the last
get_file_name_and_extension_first_dot(file_full_path) ==
    LET file_path_components == split(file_full_path, "/")
        parts == split(file_path_components[Len(file_path_components)], ".")
    IN  IF Len(parts) > 1
        THEN <<parts[1], SubSeq(file_path_components[Len(file_path_components)],
                                Len(parts[1]) + 2,
                                Len(file_path_components[Len(file_path_components)]))>>
        ELSE <<parts[1], EmptyString>>

\* lines 623-631: <<file_name, file_extension>>
get_file_name_and_extension(file_full_path) ==
    LET file_path_components == split(file_full_path, "/")
        file_name_and_extension ==
            rsplit1(file_path_components[Len(file_path_components)], <<".">>)
    IN  IF Len(file_name_and_extension) > 0
        THEN IF Len(file_name_and_extension) > 1
             THEN <<file_name_and_extension[1], file_name_and_extension[2]>>
             ELSE <<file_name_and_extension[1], EmptyString>>
        ELSE <<EmptyString, EmptyString>>

\* str.lower() of a token
lower(w) == IF w = "PDF" THEN "pdf" ELSE w

\* a check that ignores the case of the extension
is_supported_file_type_any_case(data_file_full_path) ==
    LET data_file_extension == get_file_name_and_extension(data_file_full_path)[2]
    IN  \E t \in supported_file_types :
            <<t>> = [i \in 1..Len(data_file_extension) |-> lower(data_file_extension[i])]

\* lines 644-655
is_supported_file_type(data_file_full_path) ==
    LET data_file_extension == get_file_name_and_extension(data_file_full_path)[2]
    IN  \E t \in supported_file_types : <<t>> = data_file_extension

call_get_file_name_and_extension ==
    /\ arg.fn = "none"
    /\ arg' = [arg EXCEPT !.fn = "get_file_name_and_extension"]
    /\ out' = Tuple(get_file_name_and_extension(arg.path)[1],
                    get_file_name_and_extension(arg.path)[2])
    /\ UNCHANGED <<provisioning, items, written, opened, callers>>

call_is_supported_file_type ==
    /\ arg.fn = "none"
    /\ arg' = [arg EXCEPT !.fn = "is_supported_file_type"]
    /\ out' = Bool(is_supported_file_type(arg.path))
    /\ UNCHANGED <<provisioning, items, written, opened, callers>>

FileInit ==
    /\ NoProvisioning
    /\ arg \in {[fn |-> "none", path |-> p] : p \in Paths}
    /\ out = NoneValue
    /\ items = << >>
    /\ written = << >>
    /\ opened = << >>
    /\ callers = << >>

FileNext == call_get_file_name_and_extension \/ call_is_supported_file_type

FileSpec == FileInit /\ [][FileNext]_vars

\* the last '/'-separated segment of the path p is seg
LastSegment(p, seg) ==
    /\ \A i \in 1..Len(seg) : seg[i] # "/"
    /\ \E pre \in {SubSeq(p, 1, k) : k \in 0..Len(p)} :
        /\ p = pre \o seg
        /\ pre # << >> => pre[Len(pre)] = "/"

\* C18: get_file_name_and_extension returns (name, extension) computed from
\* the last '/'-separated segment only: the extension is the text after the
\* final '.' of the segment and the name the text before it, and when the
\* segment holds no '.' the extension is empty and the name is the segment;
\* "a/b/c.txt" gives ("c", "txt") and "a/b/noext" gives ("noext", "").
C18_NameAndExtension ==
    arg.fn = "get_file_name_and_extension"
        => LET n == out.val[1]
               e == out.val[2]
           IN  /\ out.tag = "Tuple"
               /\ \A i \in 1..Len(e) : e[i] # "."
               /\ \/ e = EmptyString /\ LastSegment(arg.path, n)
                        /\ \A i \in 1..Len(n) : n[i] # "."
                  \/ LastSegment(arg.path, n \o <<".">> \o e)
               /\ arg.path = <<"a", "/", "b", "/", "c", ".", "txt">>
                    => n = <<"c">> /\ e = <<"txt">>
               /\ arg.path = <<"a", "/", "b", "/", "noext">>
                    => n = <<"noext">> /\ e = EmptyString

\* a directory with a '.' and a last segment with two: the name keeps the
\* first '.' of the segment
C18_Witness ==
    /\ arg.fn = "get_file_name_and_extension"
    /\ arg.path = <<".", ".", "txt">>
    /\ out = Tuple(<<".">>, <<"txt">>)

\* C19: is_supported_file_type returns true exactly when the extension of the
\* path, compared with its case, is one of pdf, csv, doc, docx, xls, xlsx,
\* html, txt, md, png, jpeg, gif, webp, and false for every other path.
C19_SupportedTypes ==
    arg.fn = "is_supported_file_type"
        => out = Bool(\E seg \in {SubSeq(arg.path, k, Len(arg.path)) : k \in 1..(Len(arg.path) + 1)} :
                        /\ LastSegment(arg.path, seg)
                        /\ Len(seg) >= 2
                        /\ seg[Len(seg) - 1] = "."
                        /\ seg[Len(seg)] \in {"pdf", "csv", "doc", "docx", "xls", "xlsx",
                                              "html", "txt", "md", "png", "jpeg", "gif",
                                              "webp"})

\* an upper-case extension is not supported
C19_Witness ==
    /\ arg.fn = "is_supported_file_type"
    /\ arg.path = <<"c", ".", "PDF">>
    /\ out = False

(***************************************************************************)
(* JSON.  A JSON text is a sequence of tokens [k, v]: punctuation, string   *)
(* literals, the literals true / false / null, numbers and white space.     *)
(* A Python dict is a function from its keys to Python values [t, v].       *)
(***************************************************************************)
Punct(c) == [k |-> "punct", v |-> c]
StringLit(x) == [k |-> "string", v |-> x]
Lit(x) == [k |-> "lit", v |-> x]
Num(x) == [k |-> "num", v |-> x]
Ws == [k |-> "ws", v |-> " "]
LBrace == Punct("{")
RBrace == Punct("}")
Colon == Punct(":")
Comma == Punct(",")

PyStr(x) == [t |-> "str", v |-> x]
PyBool(x) == [t |-> "bool", v |-> x]
PyInt(x) == [t |-> "int", v |-> x]
PyNone == [t |-> "NoneType", v |-> "None"]
PyDecimal(x) == [t |-> "Decimal", v |-> x]
EmptyDict == [f \in {} |-> PyNone]
Dict(d) == [tag |-> "Dict", val |-> d]

NoWs(s) == SelectSeq(s, LAMBDA tok : tok.k # "ws")

\* s is the text of a JSON object whose members are strings, literals and
\* numbers
IsObject(s) ==
    LET u == NoWs(s)
        n == (Len(u) - 1) \div 4
    IN  /\ Len(u) >= 2
        /\ u[1] = LBrace
        /\ u[Len(u)] = RBrace
        /\ \/ Len(u) = 2
           \/ /\ n >= 1
              /\ Len(u) = 4 * n + 1
              /\ \A i \in 1..n :
                    /\ u[4 * i - 2].k = "string"
                    /\ u[4 * i - 1] = Colon
                    /\ u[4 * i].k \in {"string", "lit", "num"}
                    /\ i < n => u[4 * i + 1] = Comma

\* the Python value of a JSON value token
PyValue(tok) ==
    IF tok.k = "string" THEN PyStr(tok.v)
    ELSE IF tok.k = "num" THEN PyInt(tok.v)
    ELSE IF tok.v = "true" THEN PyBool("True")
    ELSE IF tok.v = "false" THEN PyBool("False")
    ELSE PyNone

\* json.loads of the text of an object: of two members with one key the
\* later one stays
json_loads(s) ==
    LET u == NoWs(s)
        n == (Len(u) - 1) \div 4
        last(key) == CHOOSE i \in 1..n :
                        /\ u[4 * i - 2].v = key
                        /\ \A j \in (i + 1)..n : u[4 * j - 2].v # key
    IN  [key \in {u[4 * i - 2].v : i \in 1..n} |-> PyValue(u[4 * last(key)])]

\* the JSON value token of a Python value
JsonValue(x) ==
    IF x.t = "str" THEN StringLit(x.v)
    ELSE IF x.t = "int" THEN Num(x.v)
    ELSE IF x.t = "bool" THEN Lit(IF x.v = "True" THEN "true" ELSE "false")
    ELSE Lit("null")

\* the orders in which the keys of a dict can stand
Orders(S) == {o \in [1..Cardinality(S) -> S] : \A x \in S : \E i \in 1..Cardinality(S) : o[i] = x}

\* json.dumps of a dict whose keys stand in the given order, with the
\* separators ', ' and ': '
RECURSIVE dumps_members(_, _)
dumps_members(d, order) ==
    IF order = << >> THEN << >>
    ELSE <<StringLit(order[1]), Colon, Ws, JsonValue(d[order[1]])>>
         \o (IF Len(order) > 1 THEN <<Comma, Ws>> ELSE << >>)
         \o dumps_members(d, Tail(order))

json_dumps(d, order) == <<LBrace>> \o dumps_members(d, order) \o <<RBrace>>

\* json.dumps raises TypeError on a value that is not a JSON type
Serializable(d) == \A f \in DOMAIN d : d[f].t # "Decimal"

(***************************************************************************)
(* write_to_metadata_table, retrieve_from_metadata_table                    *)
(*                                                                          *)
(* items[k] is << >> when the table holds no item under the key k, and      *)
(* <<item>> when it holds one; a read sees the last write.  written[k] is   *)
(* the text of the last write to k that the table took, << >> before it.    *)
(***************************************************************************)
MaxMembers == 2

FileKeys == {"f1", "f2"}

\* the members "key": value that a written text is made of
Members == {<<"summary", StringLit("a")>>, <<"summary", Num("1")>>,
            <<"pii_indicator", Lit("true")>>}

RECURSIVE compact_members(_)
compact_members(ms) ==
    IF ms = << >> THEN << >>
    ELSE <<StringLit(ms[1][1]), Colon, ms[1][2]>>
         \o (IF Len(ms) > 1 THEN <<Comma>> ELSE << >>)
         \o compact_members(Tail(ms))

\* the texts of the metadata that a caller writes
Texts == {<<LBrace>> \o compact_members(ms) \o <<RBrace>> : ms \in SeqsUpTo(Members, MaxMembers)}

\* boto3 TypeSerializer: the attribute value of a Python value
serialize_as_text(x) == [T |-> "S", v |-> x.v]

serialize(x) ==
    IF x.t = "str" THEN [T |-> "S", v |-> x.v]
    ELSE IF x.t = "bool" THEN [T |-> "BOOL", v |-> x.v]
    ELSE IF x.t = "int" THEN [T |-> "N", v |-> x.v]
    ELSE [T |-> "NULL", v |-> "True"]

\* boto3 TypeDeserializer: a number comes back as a Decimal
deserialize(a) ==
    IF a.T = "S" THEN PyStr(a.v)
    ELSE IF a.T = "BOOL" THEN PyBool(a.v)
    ELSE IF a.T = "N" THEN PyDecimal(a.v)
    ELSE PyNone

\* lines 580-585: an item that keeps the attributes of the one it replaces
put_item_merged(old, key, metadata) ==
    LET before == IF old = << >> THEN EmptyDict ELSE old[1].Metadata
    IN  <<[FileName |-> key,
           Metadata |-> [f \in DOMAIN before \cup DOMAIN metadata |->
                            IF f \in DOMAIN metadata THEN serialize(metadata[f])
                            ELSE before[f]]]>>

\* lines 580-585: put_item replaces the item under the key
put_item(old, key, metadata) ==
    <<[FileName |-> key, Metadata |-> [f \in DOMAIN metadata |-> serialize(metadata[f])]]>>

\* a read that gives an empty dict for a key without an item
response_metadata_or_empty(response) ==
    IF response = << >> THEN Dict(EmptyDict)
    ELSE Dict([f \in DOMAIN response[1].Metadata |-> deserialize(response[1].Metadata[f])])

\* line 609: response['Item']['Metadata'], a KeyError when the response
\* carries no Item
response_metadata(response) ==
    IF response = << >> THEN Raised("KeyError")
    ELSE Dict([f \in DOMAIN response[1].Metadata |-> deserialize(response[1].Metadata[f])])

\* lines 578-586
write_to_metadata_table(key, file_metadata) ==
    /\ arg' = [fn |-> "write_to_metadata_table", key |-> key]
    /\ \/ /\ items' = [items EXCEPT ![key] = put_item(items[key], key, json_loads(file_metadata))]
          /\ written' = [written EXCEPT ![key] = file_metadata]
          /\ out' = NoneValue
       \/ /\ out' = Raised(OtherError)
          /\ UNCHANGED <<items, written>>
    /\ UNCHANGED <<provisioning, opened, callers>>

\* lines 601-610
retrieve_from_metadata_table(key) ==
    /\ arg' = [fn |-> "retrieve_from_metadata_table", key |-> key]
    /\ \/ out' = Raised(OtherError)
       \/ LET file_metadata == response_metadata(items[key])
          IN  IF file_metadata.tag = "Raised"
              THEN out' = file_metadata
              ELSE IF ~Serializable(file_metadata.val)
                   THEN out' = Raised("TypeError")
                   ELSE \E order \in Orders(DOMAIN file_metadata.val) :
                            out' = Str(json_dumps(file_metadata.val, order))
    /\ UNCHANGED <<items, written>>
    /\ UNCHANGED <<provisioning, opened, callers>>

StoreInit ==
    /\ NoProvisioning
    /\ items = [k \in FileKeys |-> << >>]
    /\ written = [k \in FileKeys |-> << >>]
    /\ arg = [fn |-> "none", key |-> ""]
    /\ out = NoneValue
    /\ opened = << >>
    /\ callers = << >>

StoreNext ==
    \/ \E key \in FileKeys, file_metadata \in Texts : write_to_metadata_table(key, file_metadata)
    \/ \E key \in FileKeys : retrieve_from_metadata_table(key)

StoreSpec == StoreInit /\ [][StoreNext]_vars

\* the text is a file metadata record: its values are strings and booleans
IsMetadataRecord(text) ==
    /\ IsObject(text)
    /\ \A f \in DOMAIN json_loads(text) : json_loads(text)[f].t \in {"str", "bool"}

\* C11: for every metadata record and key, a write_to_metadata_table that is
\* followed by a retrieve_from_metadata_table of the same table and key makes
\* the retrieve return a JSON string whose parse equals the parse of the JSON
\* string that was written (both requests being served).
C11_RoundTrip ==
    [][(/\ arg.fn = "write_to_metadata_table"
        /\ out = NoneValue
        /\ arg'.fn = "retrieve_from_metadata_table"
        /\ arg'.key = arg.key
        /\ IsMetadataRecord(written[arg.key])
        /\ out' # Raised(OtherError))
            => /\ out'.tag = "Str"
               /\ IsObject(out'.val)
               /\ json_loads(out'.val) = json_loads(written[arg.key])]_vars

\* a record with a string and a boolean comes back, as another text
C11_Witness ==
    /\ arg.fn = "retrieve_from_metadata_table"
    /\ out.tag = "Str"
    /\ written[arg.key] = <<LBrace, StringLit("summary"), Colon, StringLit("a"), Comma,
                            StringLit("pii_indicator"), Colon, Lit("true"), RBrace>>
    /\ out.val # written[arg.key]
    /\ json_loads(out.val) = [summary |-> PyStr("a"), pii_indicator |-> PyBool("True")]

\* C12: after any sequence of writes, a retrieve for a key returns the record
\* of the most recent write to that key, the whole record and nothing of the
\* one before it, and a write to one key leaves the records stored under
\* every other key unchanged.
C12_LastWriteWins ==
    /\ [](( /\ arg.fn = "retrieve_from_metadata_table"
            /\ out.tag = "Str")
              => /\ written[arg.key] # << >>
                 /\ json_loads(out.val) = json_loads(written[arg.key]))
    /\ [][arg'.fn = "write_to_metadata_table"
            => \A k \in FileKeys \ {arg'.key} : items'[k] = items[k]]_vars

\* the record holds pii_indicator alone although the key held a summary and
\* the other key holds a record
C12_Witness ==
    /\ arg.fn = "retrieve_from_metadata_table"
    /\ arg.key = "f1"
    /\ out = Str(<<LBrace, StringLit("pii_indicator"), Colon, Ws, Lit("true"), RBrace>>)
    /\ items["f2"] # << >>
    /\ items["f2"][1].Metadata = [summary |-> [T |-> "S", v |-> "a"]]

\* C17: retrieve_from_metadata_table for a key that was never written fails
\* with a propagated lookup error, returns no value, and leaves the stored
\* records unchanged.
C17_AbsentKeyRaises ==
    [][(arg'.fn = "retrieve_from_metadata_table" /\ written[arg'.key] = << >>)
            => /\ out'.tag = "Raised"
               /\ items' = items]_vars

\* the KeyError of response['Item'] reaches the caller while the other key
\* holds a record
C17_Witness ==
    /\ arg.fn = "retrieve_from_metadata_table"
    /\ written[arg.key] = << >>
    /\ \E k \in FileKeys : written[k] # << >>
    /\ out = Raised("KeyError")

(***************************************************************************)
(* process_prompt                                                           *)
(*                                                                          *)
(* The response of the model is a text in which the markers are spelled     *)
(* character by character and the JSON inside them token by token; the      *)
(* characters backtick and double quote are written by their names.         *)
(***************************************************************************)
Char(c) == [k |-> "char", v |-> c]
Newline == [k |-> "ws", v |-> "\n"]
\* what is left of a token that lost some of its characters
Junk == [k |-> "junk", v |-> ""]

Backticks == <<Char("backtick"), Char("backtick"), Char("backtick")>>
BackticksJson == Backticks \o <<Char("j"), Char("s"), Char("o"), Char("n")>>
OutputFormat == <<Char("<"), Char("o"), Char("u"), Char("t"), Char("p"), Char("u"), Char("t"),
                  Char("_"), Char("f"), Char("o"), Char("r"), Char("m"), Char("a"), Char("t"),
                  Char(">")>>
EndOutputFormat == <<Char("<"), Char("/")>> \o Tail(OutputFormat)

\* the characters of a token; of a string literal the quotes and the content
Text(tok) ==
    IF tok.k = "lit"
    THEN IF tok.v = "true" THEN <<"t", "r", "u", "e">>
         ELSE IF tok.v = "false" THEN <<"f", "a", "l", "s", "e">>
         ELSE <<"n", "u", "l", "l">>
    ELSE IF tok.k = "string" THEN <<"quote", tok.v, "quote">>
    ELSE <<tok.v>>

\* str.lstrip(chars): the leading characters that are in the set chars go
RECURSIVE lstrip(_, _)
lstrip(s, chars) ==
    IF s = << >> THEN s
    ELSE LET t == Text(s[1])
             set == {chars[i].v : i \in 1..Len(chars)}
         IN  IF \A i \in 1..Len(t) : t[i] \in set THEN lstrip(Tail(s), chars)
             ELSE IF t[1] \in set THEN <<Junk>> \o Tail(s)
             ELSE s

\* str.rstrip(chars): the trailing characters that are in the set chars go
RECURSIVE rstrip(_, _)
rstrip(s, chars) ==
    IF s = << >> THEN s
    ELSE LET t == Text(s[Len(s)])
             set == {chars[i].v : i \in 1..Len(chars)}
         IN  IF \A i \in 1..Len(t) : t[i] \in set THEN rstrip(SubSeq(s, 1, Len(s) - 1), chars)
             ELSE IF t[Len(t)] \in set THEN SubSeq(s, 1, Len(s) - 1) \o <<Junk>>
             ELSE s

\* the backtick fences alone
strip_markers_backticks_only(llm_response) ==
    rstrip(lstrip(llm_response, BackticksJson), Backticks)

\* lines 777-780
strip_markers(llm_response) ==
    rstrip(lstrip(rstrip(lstrip(llm_response, BackticksJson), Backticks), OutputFormat),
           EndOutputFormat)

\* the keys of the text of an object in the order of their first members
RECURSIVE KeyOrder(_, _)
KeyOrder(u, seen) ==
    IF Len(u) < 5 THEN << >>
    ELSE (IF u[2].v \in seen THEN << >> ELSE <<u[2].v>>)
         \o KeyOrder(<<u[1]>> \o SubSeq(u, 6, Len(u)), seen \cup {u[2].v})

\* d[key] = value on a dict and the order of its keys
SetItem(d, key, value) == [f \in DOMAIN d \cup {key} |-> IF f = key THEN value ELSE d[f]]
SetItemOrder(order, key) ==
    IF \E i \in 1..Len(order) : order[i] = key THEN order ELSE Append(order, key)

\* the text of line 782, the id of the model in it
Comments == PyStr("Created using the LLM with id {} on Amazon Bedrock.")
Timestamps == {"2025-01-01 00:00:00", "2025-01-01 00:00:01"}

\* lines 781-785 on the text that the strips leave
process_prompt_result(text, now) ==
    LET u == NoWs(text)
    IN  IF IsObject(text)
        THEN LET llm_response_json ==
                    SetItem(SetItem(json_loads(text), "comments", Comments),
                            "create_date_time", PyStr(now))
                 order == SetItemOrder(SetItemOrder(KeyOrder(u \o <<Comma>>, {}), "comments"),
                                       "create_date_time")
             IN  Str(json_dumps(llm_response_json, order))
        ELSE IF Len(u) = 1 /\ u[1].k \in {"string", "lit", "num"}
             THEN Raised("TypeError")
             ELSE Raised("JSONDecodeError")

\* lines 737-785: the response is the text that invoke_llm returns
process_prompt ==
    /\ arg.fn = "none"
    /\ arg' = [arg EXCEPT !.fn = "process_prompt", !.stripped = strip_markers(arg.llm_response)]
    /\ \/ out' = Raised(OtherError)
       \/ \E now \in Timestamps : out' = process_prompt_result(strip_markers(arg.llm_response), now)
    /\ UNCHANGED <<provisioning, items, written, opened, callers>>

Paddings == {<< >>, <<Newline>>}
LeadingMarkers == {<< >>, Backticks, BackticksJson, OutputFormat,
                   BackticksJson \o <<Newline>> \o OutputFormat}
TrailingMarkers == {<< >>, Backticks, EndOutputFormat, EndOutputFormat \o <<Newline>> \o Backticks,
                    Backticks \o <<Newline>>}
Interiors == {before \o text \o after :
                before \in Paddings, after \in Paddings,
                text \in Texts \cup {<<Lit("true")>>,
                                     <<LBrace, StringLit("comments"), Colon, StringLit("a"), RBrace>>}}
Responses == {lead \o interior \o trail :
                lead \in LeadingMarkers, interior \in Interiors, trail \in TrailingMarkers}

PromptInit ==
    /\ NoProvisioning
    /\ arg \in {[fn |-> "none", llm_response |-> r, stripped |-> << >>] : r \in Responses}
    /\ out = NoneValue
    /\ items = << >>
    /\ written = << >>
    /\ opened = << >>
    /\ callers = << >>

PromptNext == process_prompt

PromptSpec == PromptInit /\ [][PromptNext]_vars

\* the pairs of markers that the claim names
Wrappers == {<<BackticksJson, Backticks>>, <<Backticks, Backticks>>,
             <<OutputFormat, EndOutputFormat>>}

\* the response is the text of a JSON object between a pair of markers
Wrapped(response, w, interior) ==
    /\ response = w[1] \o interior \o w[2]
    /\ IsObject(interior)

\* C16: for every response that is a JSON object wrapped in a leading fence
\* of three backticks, with or without json, and a trailing fence of three
\* backticks, or in <output_format> and </output_format>, process_prompt
\* strips the markers and no character of the interior, parses the interior,
\* and returns an object that holds comments and create_date_time and every
\* field of the model output.
C16_StripsMarkersOnly ==
    (arg.fn = "process_prompt" /\ out # Raised(OtherError))
        => \A w \in Wrappers :
            \A interior \in {SubSeq(arg.llm_response, i, j) :
                                i \in 1..(Len(arg.llm_response) + 1),
                                j \in 0..Len(arg.llm_response)} :
                Wrapped(arg.llm_response, w, interior)
                    => /\ arg.stripped = interior
                       /\ out.tag = "Str"
                       /\ IsObject(out.val)
                       /\ {"comments", "create_date_time"} \subseteq DOMAIN json_loads(out.val)
                       /\ \A f \in DOMAIN json_loads(interior) \ {"comments", "create_date_time"} :
                            /\ f \in DOMAIN json_loads(out.val)
                            /\ json_loads(out.val)[f] = json_loads(interior)[f]

\* an object between <output_format> markers, with a line break on each side
C16_Witness ==
    /\ arg.fn = "process_prompt"
    /\ arg.llm_response = OutputFormat
            \o <<Newline, LBrace, StringLit("pii_indicator"), Colon, Lit("true"), RBrace, Newline>>
            \o EndOutputFormat
    /\ arg.stripped = <<Newline, LBrace, StringLit("pii_indicator"), Colon, Lit("true"), RBrace,
                        Newline>>
    /\ out.tag = "Str"
    /\ json_loads(out.val)["pii_indicator"] = PyBool("True")
    /\ json_loads(out.val)["comments"] = Comments

(***************************************************************************)
(* process_bda_result                                                       *)
(*                                                                          *)
(* A file path is a sequence of tokens, "/" and names.  The artifacts of    *)
(* the invocation are objects of the output bucket under the key prefix     *)
(* /invocation_id/; the download puts each at local_dir joined with the     *)
(* part of its key after that prefix.  opened lists the paths handed to     *)
(* open(), each with the artifact the code means to read.                   *)
(***************************************************************************)
\* os.path.join(a, b)
os_path_join(a, b) ==
    IF b # << >> /\ b[1] = "/" THEN b
    ELSE IF a = << >> \/ a[Len(a)] = "/" THEN a \o b
    ELSE a \o <<"/">> \o b

Prefixes == {<<"/", "tmp">>, <<"tmp">>, <<"tmp", "/", "out">>, << >>}
Statuses == {"MATCH", "NO_MATCH", "match"}

S3Path(id, file) == <<"s3://bucket", "/", id, "/", file>>

\* the artifacts: the first segment of job_metadata.json, the standard
\* output and the custom output
Segments == [standard_output_path : {S3Path(id, "standard_output.json") : id \in InvocationIds},
             custom_output_path : {S3Path(id, "custom_output.json") : id \in InvocationIds},
             custom_output_status : Statuses]
StandardOutputs == {[document |-> [description |-> PyStr("d"), summary |-> PyStr("s")]],
                    [image |-> [summary |-> PyStr("i")]],
                    [document |-> [description |-> PyStr("d"), summary |-> PyStr("s")],
                     image |-> [summary |-> PyStr("i")]],
                    [video |-> [summary |-> PyStr("v")]]}
CustomOutputs == {[inference_result |-> [pii_indicator |-> i, pii_explanation |-> e]] :
                    i \in {PyBool("True"), PyBool("False"), PyStr("None")},
                    e \in {PyStr("names"), PyStr("")}}

\* download_from_s3(local_dir, bucket, '/id/'): where the object of the
\* given S3 path lands
DownloadedTo(local_dir, id, s3_path) ==
    LET key == Tail(s3_path)
        key_prefix == <<"/", id, "/">>
    IN  os_path_join(local_dir \o <<"/">>, SubSeq(key, Len(key_prefix) + 1, Len(key)))

\* the files of the local file system after the download
Downloaded(local_dir, id, segment) ==
    {os_path_join(local_dir \o <<"/">>, <<"job_metadata.json">>),
     DownloadedTo(local_dir, id, segment.standard_output_path),
     DownloadedTo(local_dir, id, segment.custom_output_path)}

\* a custom output is read whatever the status
has_custom_output_always(bda_result_custom_output_status) == TRUE

\* line 873
has_custom_output(bda_result_custom_output_status) == bda_result_custom_output_status = "MATCH"

\* a record that looks for the image first
file_metadata_image_first(standard_output, pii_indicator, pii_explanation, now) ==
    LET image == "image" \in DOMAIN standard_output
        record == [description |-> IF image THEN PyStr("Image")
                                   ELSE standard_output.document.description,
                   summary |-> IF image THEN standard_output.image.summary
                               ELSE standard_output.document.summary,
                   pii_indicator |-> pii_indicator,
                   pii_explanation |-> pii_explanation,
                   comments |-> PyStr("Created using Amazon Bedrock Data Automation."),
                   create_date_time |-> PyStr(now)]
    IN  json_dumps(record, <<"description", "summary", "pii_indicator", "pii_explanation",
                             "comments", "create_date_time">>)

\* lines 887 and 897-899: bda_result_standard_output['image'] is a KeyError
\* when the standard output holds neither a document nor an image
HasSummary(standard_output) ==
    "document" \in DOMAIN standard_output \/ "image" \in DOMAIN standard_output

\* lines 887-906: the record, its keys in the order of the literal
file_metadata(standard_output, pii_indicator, pii_explanation, now) ==
    LET document == "document" \in DOMAIN standard_output
        record == [description |-> IF document THEN standard_output.document.description
                                   ELSE PyStr("Image"),
                   summary |-> IF document THEN standard_output.document.summary
                               ELSE standard_output.image.summary,
                   pii_indicator |-> pii_indicator,
                   pii_explanation |-> pii_explanation,
                   comments |-> PyStr("Created using Amazon Bedrock Data Automation."),
                   create_date_time |-> PyStr(now)]
    IN  json_dumps(record, <<"description", "summary", "pii_indicator", "pii_explanation",
                             "comments", "create_date_time">>)

\* lines 853-906
process_bda_result ==
    LET id == arg.invocation_id
        local_dir == os_path_join(arg.local_dir_name_prefix, <<id>>)
        exists == Downloaded(local_dir, id, arg.segment)
        metadata_file == os_path_join(local_dir, <<"job_metadata.json">>)
        standard_file == os_path_join(local_dir,
                            local_dir \o substring_after(arg.segment.standard_output_path, <<id>>))
        custom_file == os_path_join(local_dir,
                            local_dir \o substring_after(arg.segment.custom_output_path, <<id>>))
        Open(file, path) == [file |-> file, path |-> path]
    IN  /\ arg.fn = "none"
        /\ arg' = [arg EXCEPT !.fn = "process_bda_result"]
        /\ \/ \* the download fails
              /\ opened' = << >>
              /\ out' = Raised(OtherError)
           \/ /\ standard_file \notin exists
              /\ opened' = <<Open("job_metadata", metadata_file),
                             Open("standard_output", standard_file)>>
              /\ out' = Raised("FileNotFoundError")
           \/ /\ standard_file \in exists
              /\ has_custom_output(arg.segment.custom_output_status)
              /\ custom_file \notin exists
              /\ opened' = <<Open("job_metadata", metadata_file),
                             Open("standard_output", standard_file),
                             Open("custom_output", custom_file)>>
              /\ out' = Raised("FileNotFoundError")
           \/ /\ standard_file \in exists
              /\ has_custom_output(arg.segment.custom_output_status)
              /\ custom_file \in exists
              /\ opened' = <<Open("job_metadata", metadata_file),
                             Open("standard_output", standard_file),
                             Open("custom_output", custom_file)>>
              /\ IF HasSummary(arg.standard_output)
                 THEN \E now \in Timestamps :
                        out' = Str(file_metadata(arg.standard_output,
                                                 arg.custom_output.inference_result.pii_indicator,
                                                 arg.custom_output.inference_result.pii_explanation,
                                                 now))
                 ELSE out' = Raised("KeyError")
           \/ /\ standard_file \in exists
              /\ ~has_custom_output(arg.segment.custom_output_status)
              /\ opened' = <<Open("job_metadata", metadata_file),
                             Open("standard_output", standard_file)>>
              /\ IF HasSummary(arg.standard_output)
                 THEN \E now \in Timestamps :
                        out' = Str(file_metadata(arg.standard_output, PyStr("None"), PyStr(""),
                                                 now))
                 ELSE out' = Raised("KeyError")
        /\ UNCHANGED <<provisioning, items, written, callers>>

ResultInit ==
    /\ NoProvisioning
    /\ arg \in [fn : {"none"},
                invocation_id : InvocationIds,
                local_dir_name_prefix : Prefixes,
                segment : Segments,
                standard_output : StandardOutputs,
                custom_output : CustomOutputs]
    /\ out = NoneValue
    /\ opened = << >>
    /\ items = << >>
    /\ written = << >>
    /\ callers = << >>

ResultNext == process_bda_result

ResultSpec == ResultInit /\ [][ResultNext]_vars

\* the call opened the custom-output file
CustomOutputRead == \E i \in 1..Len(opened) : opened[i].file = "custom_output"

\* C15: process_bda_result takes pii_indicator and pii_explanation from the
\* inference_result of the custom-output file exactly when the
\* custom_output_status of the first segment is 'MATCH'; for every other
\* status the record it returns has pii_indicator "None" and pii_explanation
\* "", and the custom-output file is not read.
C15_PiiFromCustomOutputOnMatch ==
    arg.fn = "process_bda_result"
        => /\ arg.segment.custom_output_status # "MATCH" => ~CustomOutputRead
           /\ out.tag = "Str"
                => /\ IsObject(out.val)
                   /\ IF arg.segment.custom_output_status = "MATCH"
                      THEN /\ CustomOutputRead
                           /\ json_loads(out.val)["pii_indicator"]
                                = arg.custom_output.inference_result.pii_indicator
                           /\ json_loads(out.val)["pii_explanation"]
                                = arg.custom_output.inference_result.pii_explanation
                      ELSE /\ json_loads(out.val)["pii_indicator"] = PyStr("None")
                           /\ json_loads(out.val)["pii_explanation"] = PyStr("")

\* a document with a matched blueprint: the record carries the values of the
\* custom output
C15_Witness ==
    /\ arg.fn = "process_bda_result"
    /\ arg.segment.custom_output_status = "MATCH"
    /\ "document" \in DOMAIN arg.standard_output
    /\ arg.custom_output.inference_result.pii_indicator = PyBool("True")
    /\ arg.custom_output.inference_result.pii_explanation = PyStr("names")
    /\ out.tag = "Str"
    /\ CustomOutputRead
    /\ json_loads(out.val)["pii_indicator"] = PyBool("True")
    /\ json_loads(out.val)["pii_explanation"] = PyStr("names")

(***************************************************************************)
(* Two callers of one ensure function.                                      *)
(*                                                                          *)
(* callers[c] is the frame of caller c: the function and the name it was    *)
(* called with, its position ("start" before the call, "idle" after it),    *)
(* its return value, the rest of the listing its loop walks, its counter,   *)
(* whether its lookup found the resource absent, and the create requests    *)
(* it issued.  The callers share the services; each request is one step.    *)
(***************************************************************************)
Callers == {1, 2}

NamesOf(f) ==
    CASE f = "check_and_create_metadata_table" -> TableNames
      [] f = "check_and_create_bda_blueprint" -> BlueprintNames
      [] OTHER -> ProjectNames

\* the service holds something under the name, in whatever status
Held(f, n) ==
    CASE f = "check_and_create_metadata_table" -> tables[n] # "ABSENT"
      [] f = "check_and_create_bda_blueprint" -> n \in blueprints
      [] OTHER -> projects[n] # "ABSENT"

AlreadyExists == {"ResourceInUseException", "ConflictException"}

\* a create whose already-exists error is caught
after_create_error_handled(code) == IF code \in AlreadyExists THEN NoneValue ELSE Raised(code)

\* lines 161-179, 273-291, 420-437: no handler surrounds the create request
after_create_error(code) == Raised(code)

At(c, f, p) == callers[c].fn = f /\ callers[c].pc = p
Becomes(c, frame_of_c) == callers' = [callers EXCEPT ![c] = frame_of_c]
UntouchedByCallers == <<frame, history, items, arg, out, written, opened>>

\* lines 399-419
conc_check_and_create_metadata_table(c) ==
    /\ At(c, "check_and_create_metadata_table", "start")
    /\ \E r \in describe_table(callers[c].name) :
        Becomes(c, [callers[c] EXCEPT
                        !.absent = (r.error = NotFound),
                        !.pc = IF r.error = "" THEN "idle" ELSE "create_table",
                        !.ret = IF r.error = "" THEN NoneValue ELSE Running])
    /\ UNCHANGED <<service, UntouchedByCallers>>

\* lines 419-441
conc_check_and_create_metadata_table_create(c) ==
    /\ At(c, "check_and_create_metadata_table", "create_table")
    /\ \E r \in create_table(callers[c].name) :
        IF r.error # ""
        THEN /\ Becomes(c, [callers[c] EXCEPT !.creates = @ + 1, !.pc = "idle",
                                              !.ret = after_create_error(r.error)])
             /\ UNCHANGED tables
        ELSE /\ tables' = [tables EXCEPT ![callers[c].name] = r.status]
             /\ Becomes(c, [callers[c] EXCEPT
                                !.creates = @ + 1,
                                !.pc = IF TableReady(r.status) THEN "idle" ELSE "poll_table",
                                !.ret = IF TableReady(r.status) THEN NoneValue ELSE Running,
                                !.counter = IF TableReady(r.status) THEN @ ELSE 1])
    /\ UNCHANGED <<blueprints, projects, UntouchedByCallers>>

\* lines 442-455
conc_check_and_create_metadata_table_poll(c) ==
    /\ At(c, "check_and_create_metadata_table", "poll_table")
    /\ \E r \in describe_table(callers[c].name) :
        IF r.error # ""
        THEN Becomes(c, [callers[c] EXCEPT !.pc = "idle", !.ret = Raised(r.error)])
        ELSE IF TableReady(r.status)
             THEN Becomes(c, [callers[c] EXCEPT !.pc = "idle", !.ret = NoneValue])
             ELSE IF NextCounter(callers[c].counter) = TablePollLimit
                  THEN Becomes(c, [callers[c] EXCEPT !.pc = "idle", !.ret = NoneValue,
                                                     !.counter = NextCounter(@)])
                  ELSE Becomes(c, [callers[c] EXCEPT !.counter = NextCounter(@)])
    /\ UNCHANGED <<service, UntouchedByCallers>>

\* lines 150-159
conc_check_and_create_bda_blueprint(c) ==
    /\ At(c, "check_and_create_bda_blueprint", "start")
    /\ \/ \E l \in list_blueprints :
            Becomes(c, [callers[c] EXCEPT
                            !.absent = (callers[c].name \notin Range(l)),
                            !.pc = IF callers[c].name \in Range(l)
                                   THEN "idle" ELSE "create_blueprint",
                            !.ret = IF callers[c].name \in Range(l)
                                    THEN Str(BlueprintArn(callers[c].name)) ELSE Running])
       \/ Becomes(c, [callers[c] EXCEPT !.pc = "idle", !.ret = Raised(OtherError)])
    /\ UNCHANGED <<service, UntouchedByCallers>>

\* lines 161-186
conc_check_and_create_bda_blueprint_create(c) ==
    /\ At(c, "check_and_create_bda_blueprint", "create_blueprint")
    /\ \E r \in create_blueprint(callers[c].name) :
        IF r.error # ""
        THEN /\ Becomes(c, [callers[c] EXCEPT !.creates = @ + 1, !.pc = "idle",
                                              !.ret = after_create_error(r.error)])
             /\ UNCHANGED blueprints
        ELSE /\ blueprints' = blueprints \cup {callers[c].name}
             /\ Becomes(c, [callers[c] EXCEPT !.creates = @ + 1, !.pc = "idle",
                                              !.ret = Str(BlueprintArn(callers[c].name))])
    /\ UNCHANGED <<tables, projects, UntouchedByCallers>>

\* lines 261-272
conc_check_and_create_bda_project(c) ==
    /\ At(c, "check_and_create_bda_project", "start")
    /\ \/ \E l \in list_data_automation_projects :
            Becomes(c, [callers[c] EXCEPT
                            !.absent = (callers[c].name \notin Range(l)),
                            !.pc = IF project_loop(l, callers[c].name).pc = "idle"
                                   THEN "idle" ELSE "create_project",
                            !.ret = project_loop(l, callers[c].name).ret,
                            !.listing = project_loop(l, callers[c].name).listing])
       \/ Becomes(c, [callers[c] EXCEPT !.pc = "idle", !.ret = Raised(OtherError)])
    /\ UNCHANGED <<service, UntouchedByCallers>>

\* lines 273-370
conc_check_and_create_bda_project_create(c) ==
    /\ At(c, "check_and_create_bda_project", "create_project")
    /\ \E r \in create_data_automation_project(callers[c].name) :
        IF r.error # ""
        THEN /\ Becomes(c, [callers[c] EXCEPT !.creates = @ + 1, !.pc = "idle",
                                              !.ret = after_create_error(r.error),
                                              !.listing = << >>])
             /\ UNCHANGED projects
        ELSE /\ projects' = [projects EXCEPT ![callers[c].name] = ProjectAfterCreate(r.status)]
             /\ IF r.status \in {"COMPLETED", "FAILED"}
                THEN Becomes(c, [callers[c] EXCEPT
                        !.creates = @ + 1,
                        !.pc = IF project_loop(callers[c].listing, callers[c].name).pc = "idle"
                               THEN "idle" ELSE "create_project",
                        !.ret = project_loop(callers[c].listing, callers[c].name).ret,
                        !.listing = project_loop(callers[c].listing, callers[c].name).listing])
                ELSE Becomes(c, [callers[c] EXCEPT !.creates = @ + 1, !.pc = "poll_project",
                                                   !.ret = Running, !.listing = << >>,
                                                   !.counter = 1])
    /\ UNCHANGED <<tables, blueprints, UntouchedByCallers>>

\* lines 371-383
conc_check_and_create_bda_project_poll(c) ==
    /\ At(c, "check_and_create_bda_project", "poll_project")
    /\ \/ \E l \in list_data_automation_projects :
            IF callers[c].name \in Range(l)
            THEN Becomes(c, [callers[c] EXCEPT !.pc = "idle",
                                               !.ret = Str(ProjectArn(callers[c].name))])
            ELSE IF NextCounter(callers[c].counter) = ProjectPollLimit
                 THEN Becomes(c, [callers[c] EXCEPT !.pc = "idle", !.ret = Str(EmptyString),
                                                    !.counter = NextCounter(@)])
                 ELSE Becomes(c, [callers[c] EXCEPT !.counter = NextCounter(@)])
       \/ Becomes(c, [callers[c] EXCEPT !.pc = "idle", !.ret = Raised(OtherError)])
    /\ UNCHANGED <<service, UntouchedByCallers>>

ConcInit ==
    /\ resource \in {"table", "blueprint", "project"}
    /\ tables \in [TableNames -> {"ABSENT"} \cup TableStatuses]
    /\ blueprints \in SUBSET BlueprintNames
    /\ projects \in [ProjectNames -> {"ABSENT", "LIVE", "DELETING"}]
    /\ resource # "table" => tables = [n \in TableNames |-> "ABSENT"]
    /\ resource # "blueprint" => blueprints = {}
    /\ resource # "project" => projects = [n \in ProjectNames |-> "ABSENT"]
    /\ \E f \in EnsureFunctions : \E n \in NamesOf(f) :
        /\ ResourceOf(f) = resource
        /\ callers = [c \in Callers |->
                        [fn |-> f, name |-> n, pc |-> "start", ret |-> NoneValue,
                         listing |-> << >>, counter |-> 0, absent |-> FALSE, creates |-> 0]]
    /\ fn = "none"
    /\ pc = "idle"
    /\ name = ""
    /\ version = EmptyString
    /\ listing = << >>
    /\ counter = 0
    /\ table_exists = FALSE
    /\ invocation_id = EmptyString
    /\ ret = NoneValue
    /\ creates = 0
    /\ polls = 0
    /\ lastStatus = ""
    /\ lookupErr = FALSE
    /\ exhausted = FALSE
    /\ listed = FALSE
    /\ prev = NoPrev
    /\ items = << >>
    /\ arg = << >>
    /\ out = NoneValue
    /\ written = << >>
    /\ opened = << >>

ConcStep ==
    \/ \E c \in Callers : conc_check_and_create_metadata_table(c)
    \/ \E c \in Callers : conc_check_and_create_metadata_table_create(c)
    \/ \E c \in Callers : conc_check_and_create_metadata_table_poll(c)
    \/ \E c \in Callers : conc_check_and_create_bda_blueprint(c)
    \/ \E c \in Callers : conc_check_and_create_bda_blueprint_create(c)
    \/ \E c \in Callers : conc_check_and_create_bda_project(c)
    \/ \E c \in Callers : conc_check_and_create_bda_project_create(c)
    \/ \E c \in Callers : conc_check_and_create_bda_project_poll(c)

ConcNext == ConcStep \/ Service

ConcSpec == ConcInit /\ [][ConcNext]_vars

CreatePcs == {"create_table", "create_blueprint", "create_project"}

\* C13: two callers of one ensure function for one name can both find the
\* resource absent and both issue a create request (the witness); nothing in
\* the functions handles the outcome: a create request for a name that the
\* service holds by then is answered with an error that ends the call of
\* the caller, raised, and changes nothing in the service.
C13_SecondCreateRaises ==
    [][\A c \in Callers :
        (/\ callers[c].pc \in CreatePcs
         /\ callers'[c] # callers[c]
         /\ Held(callers[c].fn, callers[c].name))
            => /\ callers'[c].pc = "idle"
               /\ callers'[c].ret.tag = "Raised"
               /\ callers'[c].creates = callers[c].creates + 1
               /\ service' = service]_vars

\* both callers found the table absent and both issued create_table: one
\* created it, the other's call ended with ResourceInUseException
C13_Witness ==
    \E c \in Callers, d \in Callers :
        /\ c # d
        /\ callers[c].fn = "check_and_create_metadata_table"
        /\ callers[c].absent /\ callers[d].absent
        /\ callers[c].creates = 1 /\ callers[d].creates = 1
        /\ callers[c].ret.tag # "Raised"
        /\ callers[d].ret = Raised("ResourceInUseException")
        /\ Held(callers[c].fn, callers[c].name)

\* C21: the record that process_bda_result returns has exactly the six keys
\* description, summary, pii_indicator, pii_explanation, comments and
\* create_date_time; description and summary are document.description and
\* document.summary when the standard output holds a document key, and
\* otherwise description is "Image" and summary is image.summary.
C21_SixKeysFromDocumentOrImage ==
    (arg.fn = "process_bda_result" /\ out.tag = "Str")
        => /\ IsObject(out.val)
           /\ DOMAIN json_loads(out.val) = {"description", "summary", "pii_indicator",
                                            "pii_explanation", "comments", "create_date_time"}
           /\ IF "document" \in DOMAIN arg.standard_output
              THEN /\ json_loads(out.val)["description"] = arg.standard_output.document.description
                   /\ json_loads(out.val)["summary"] = arg.standard_output.document.summary
              ELSE /\ json_loads(out.val)["description"] = PyStr("Image")
                   /\ json_loads(out.val)["summary"] = arg.standard_output.image.summary

\* a standard output with a document and an image: the record is the
\* document's
C21_Witness ==
    /\ arg.fn = "process_bda_result"
    /\ {"document", "image"} \subseteq DOMAIN arg.standard_output
    /\ out.tag = "Str"
    /\ json_loads(out.val)["description"] = PyStr("d")
    /\ json_loads(out.val)["summary"] = PyStr("s")

\* the S3 path of the artifact that an open is meant for
ArtifactPath(file) ==
    IF file = "standard_output" THEN arg.segment.standard_output_path
    ELSE arg.segment.custom_output_path

\* C22: for every local_dir_name_prefix, absolute or relative, the
\* standard-output and custom-output files that process_bda_result opens are
\* at local_dir (the prefix joined with the invocation id) followed by the
\* part of the artifact's S3 path after the last occurrence of the invocation
\* id, which is where the download put them, local_dir being in the opened
\* path once.
C22_OpenedInsideLocalDir ==
    arg.fn = "process_bda_result"
        => \A i \in 1..Len(opened) :
            opened[i].file \in {"standard_output", "custom_output"}
                => LET local_dir == os_path_join(arg.local_dir_name_prefix, <<arg.invocation_id>>)
                   IN  /\ opened[i].path
                            = local_dir \o substring_after(ArtifactPath(opened[i].file),
                                                           <<arg.invocation_id>>)
                       /\ opened[i].path
                            = DownloadedTo(local_dir, arg.invocation_id,
                                           ArtifactPath(opened[i].file))

\* C23: delete_bda_project and delete_metadata_table leave their polling
\* loop before the poll budget is exhausted only after the service has
\* reported the resource as not found; a lookup that fails with another
\* service error does not end the wait for the deletion.
C23_WaitEndsOnlyOnNotFound ==
    (/\ fn \in {"delete_bda_project", "delete_metadata_table"}
     /\ pc = "idle"
     /\ polls >= 1
     /\ ~exhausted)
        => lastStatus = NotFound /\ ~lookupErr

====
